---- MODULE Spec2Model ----
(***************************************************************************)
(* Panther Cloud Air: the airport reference (airport_reference.py) and the *)
(* flight network generator, route planner and auditor (flight_network.py).*)
(*                                                                         *)
(* Distances are Python floats in miles; the model keeps them as integers  *)
(* in hundredths of a mile (15000 is 150.00 miles), rounded from the       *)
(* values haversine_distance computes for the catalog's coordinates.  No   *)
(* pair of the catalog is within a mile of a threshold, so the rounding    *)
(* changes no comparison the generator makes.                              *)
(***************************************************************************)
EXTENDS Integers, Sequences, FiniteSets, TLC

VARIABLES pc, i, j, flights, processed_pairs, runs, prev_flights, call, ret,
          dicts,        \* the dict objects: name of the object -> its entries
          listing,      \* the dict object a caller got from list_all_airports
          flights_ref,  \* the list object `flights` of generate_flight_network
          prev_ref      \* the list object the call before it returned

vars == << pc, i, j, flights, processed_pairs, runs, prev_flights, call, ret,
           dicts, listing, flights_ref, prev_ref >>

(***************************************************************************)
(* Bounds of the model.                                                    *)
(***************************************************************************)
\* number of calls of generate_flight_network in one behaviour
MaxRuns == 2
\* longest edge sequence handed to the route planner
MaxRouteLen == 4
\* longest edge sequence handed to the auditor
MaxAuditLen == 3
\* longest hub list handed to should_create_direct_flight
MaxHubs == 2

\* Python's None where a number or an airport record is expected
None == -1
\* Python's None where a code is expected
NoCode == "None"
\* Python's float('inf')
Inf == -2

Range(s) == { s[k] : k \in DOMAIN s }

(***************************************************************************)
(* airport_reference.py                                                    *)
(***************************************************************************)
\* keys of the AIRPORTS dict, in the order of the dict literal
AirportCodes ==
    << "ATL", "DFW", "DEN", "ORD", "LAX", "JFK", "CLT", "LAS", "MCO", "MIA",
       "PHX", "SEA", "SFO", "EWR", "IAH", "BOS", "MSP", "FLL", "LGA", "DTW",
       "PHL", "SLC", "BWI", "IAD", "SAN", "DCA", "TPA", "BNA", "AUS", "HNL",
       "CDG" >>

\* the catalog: code -> airport record (the record is named by its position,
\* which stands for its latitude and longitude)
AIRPORTS == [ c \in Range(AirportCodes) |->
                CHOOSE k \in DOMAIN AirportCodes : AirportCodes[k] = c ]

\* no dict object, no list object
NoDict == "none"
NoList == 0

\* the objects when the modules are loaded: the dict the AIRPORTS literal
\* builds, and no list of edges yet
HeapInit ==
    /\ dicts = [ d \in { "AIRPORTS" } |-> AIRPORTS ]
    /\ listing = NoDict
    /\ flights_ref = NoList
    /\ prev_ref = NoList

\* haversine_distance(lat1, lon1, lat2, lon2) in hundredths of a mile, for the
\* coordinates of catalog entries a (row) and b (column)
HaversineTable == <<
    << 0, 72996, 119699, 60641, 194227, 75927, 22618, 174289, 40449, 59610, 158391, 217777, 213440, 74465, 68832, 94512, 90698, 58220, 76083, 59538, 66566, 158673, 57622, 53393, 188772, 54652, 40723, 21388, 81160, 449498, 438406 >>,
    << 72996, 0, 64082, 80189, 123214, 138880, 93390, 105305, 98345, 112013, 86594, 165772, 146148, 136967, 22495, 155902, 85290, 111805, 138645, 98579, 130049, 98753, 121471, 116987, 116850, 118979, 92772, 63029, 19056, 377840, 493622 >>,
    << 119699, 64082, 0, 88623, 86051, 162180, 133461, 62698, 154480, 170788, 60152, 102243, 96497, 160077, 86189, 174955, 67908, 170189, 161551, 111995, 155379, 39008, 148735, 144879, 85202, 147212, 150516, 101132, 77569, 336027, 486757 >>,
    << 60641, 80189, 88623, 0, 174118, 73811, 59920, 151098, 100658, 119918, 143750, 171608, 184189, 71710, 92626, 86416, 33381, 118406, 73133, 23379, 67626, 124662, 62006, 58718, 172018, 61048, 101363, 40967, 97840, 423729, 414102 >>,
    << 194227, 123214, 86051, 174118, 0, 246952, 212024, 23621, 221355, 233815, 36935, 95508, 33779, 244857, 137640, 260523, 153317, 233842, 246390, 197469, 239623, 58993, 232389, 228289, 10905, 230575, 215397, 179354, 123925, 255275, 565618 >>,
    << 75927, 138880, 162180, 73811, 246952, 0, 54117, 224275, 94534, 109170, 214883, 241504, 258000, 2104, 141552, 18631, 102612, 107102, 1063, 50765, 9368, 198449, 18355, 22743, 244100, 21289, 100645, 76412, 151963, 497523, 362480 >>,
    << 22618, 93390, 133461, 59920, 212024, 54117, 0, 191154, 46916, 65194, 176966, 227429, 229096, 52813, 91128, 72746, 92960, 63350, 54373, 50084, 44845, 172328, 36107, 32205, 207247, 33096, 50877, 32770, 103066, 467036, 416405 >>,
    << 174289, 105305, 62698, 151098, 23621, 224275, 191154, 0, 203580, 217144, 25557, 86667, 41323, 222176, 121979, 237507, 129726, 217009, 223687, 174473, 217135, 36768, 210094, 206068, 25902, 208373, 198074, 158389, 108828, 275917, 542883 >>,
    << 40449, 98345, 154480, 100658, 221355, 94534, 46916, 203580, 0, 19261, 184528, 255052, 244170, 93837, 85255, 112201, 131146, 17784, 95112, 95934, 86269, 192836, 78852, 75976, 214492, 76041, 8096, 61702, 99237, 474897, 449772 >>,
    << 59610, 112013, 170788, 119918, 233815, 109170, 65194, 217144, 19261, 0, 196880, 272135, 258136, 108724, 96291, 126005, 150264, 2077, 109854, 114786, 101524, 208640, 94809, 92382, 226374, 92156, 20454, 80745, 110187, 485438, 458013 >>,
    << 158391, 86594, 60152, 143750, 36935, 214883, 176966, 25557, 184528, 196880, 0, 110727, 65027, 212812, 100721, 229499, 127496, 196910, 214399, 166770, 207093, 50824, 199444, 195205, 30382, 197441, 178504, 144555, 87047, 291337, 546825 >>,
    << 217777, 165772, 102243, 171608, 95508, 241504, 227429, 86667, 255052, 272135, 110727, 0, 67913, 239511, 187250, 248867, 139478, 271402, 240624, 192171, 237219, 68762, 232892, 229977, 105154, 232270, 251720, 197369, 176933, 267689, 500161 >>,
    << 213440, 146148, 96497, 184189, 33779, 258000, 229096, 41323, 244170, 258136, 65027, 67913, 0, 255898, 163272, 269745, 158550, 257951, 257321, 207378, 251534, 59782, 245106, 241306, 44683, 243644, 238870, 196412, 150151, 239642, 556901 >>,
    << 74465, 136967, 160077, 71710, 244857, 2104, 52813, 222176, 93837, 108724, 212812, 239511, 255898, 0, 139808, 20051, 100570, 106660, 1685, 48674, 7970, 196349, 16843, 21147, 242017, 19821, 99838, 74582, 150146, 495424, 363950 >>,
    << 68832, 22495, 86189, 92626, 137640, 141552, 91128, 121979, 85255, 96291, 100721, 187250, 163272, 139808, 0, 159531, 103597, 96412, 141488, 107565, 132321, 119461, 123398, 118916, 130083, 120634, 78606, 65661, 13996, 389758, 501537 >>,
    << 94512, 155902, 174955, 86416, 260523, 18631, 72746, 237507, 112201, 126005, 229499, 248867, 269745, 20051, 159531, 0, 112090, 123928, 18430, 63054, 27958, 209977, 36892, 41185, 258232, 39861, 118581, 94067, 169600, 508652, 343900 >>,
    << 90698, 85290, 67908, 33381, 153317, 102612, 92960, 129726, 131146, 150264, 127496, 139478, 158550, 100570, 103597, 112090, 0, 148909, 101786, 52696, 97838, 98897, 93433, 90615, 153052, 92888, 130804, 69545, 104341, 396667, 420962 >>,
    << 58220, 111805, 170189, 118406, 233842, 107102, 63350, 217009, 17784, 2077, 196910, 271402, 257951, 106660, 96412, 123928, 148909, 0, 107787, 113022, 99469, 208143, 92777, 90369, 226477, 90131, 19691, 79426, 110339, 485759, 456084 >>,
    << 76083, 138645, 161551, 73133, 246390, 1063, 54373, 223687, 95112, 109854, 214399, 240624, 257321, 1685, 141488, 18430, 101786, 107787, 0, 50037, 9537, 197750, 18466, 22795, 243580, 21431, 101173, 76268, 151831, 496824, 362327 >>,
    << 59538, 98579, 111995, 23379, 197469, 50765, 50084, 174473, 95934, 114786, 166770, 192171, 207378, 48674, 107565, 63054, 52696, 113022, 50037, 0, 45257, 147747, 40822, 38279, 195258, 40483, 98503, 45675, 114873, 446810, 395132 >>,
    << 66566, 130049, 155379, 67626, 239623, 9368, 44845, 217135, 86269, 101524, 207093, 237219, 251534, 7970, 132321, 27958, 97838, 99469, 9537, 45257, 0, 192185, 8994, 13422, 236510, 11920, 92134, 67367, 142861, 491166, 371840 >>,
    << 158673, 98753, 39008, 124662, 58993, 198449, 172328, 36768, 192836, 208640, 50824, 68762, 59782, 196349, 119461, 209977, 98897, 208143, 197750, 147747, 192185, 0, 186009, 182326, 62670, 184671, 188539, 140106, 108541, 299075, 506625 >>,
    << 57622, 121471, 148735, 62006, 232389, 18355, 36107, 210094, 78852, 94809, 199444, 232892, 245106, 16843, 123398, 36892, 93433, 92777, 18466, 40822, 8994, 186009, 0, 4503, 229032, 3011, 84390, 58631, 134038, 484733, 380791 >>,
    << 53393, 116987, 144879, 58718, 228289, 22743, 32205, 206068, 75976, 92382, 195205, 229977, 241306, 21147, 118916, 41185, 90615, 90369, 22795, 38279, 13422, 182326, 4503, 0, 224847, 2347, 81259, 54130, 129536, 480904, 385067 >>,
    << 188772, 116850, 85202, 172018, 10905, 244100, 207247, 25902, 214492, 226374, 30382, 105154, 44683, 242017, 130083, 258232, 153052, 226477, 243580, 195258, 236510, 62670, 229032, 224847, 0, 227105, 208314, 174758, 116220, 261005, 568464 >>,
    << 54652, 118979, 147212, 61048, 230575, 21289, 33096, 208373, 76041, 92156, 197441, 232270, 243644, 19821, 120634, 39861, 92888, 90131, 21431, 40483, 11920, 184671, 3011, 2347, 227105, 0, 81506, 56055, 131367, 483238, 383755 >>,
    << 40723, 92772, 150516, 101363, 215397, 100645, 50877, 198074, 8096, 20454, 178504, 251720, 238870, 99838, 78606, 118581, 130804, 19691, 101173, 98503, 92134, 188539, 84390, 81259, 208314, 81506, 0, 61306, 92601, 468364, 457313 >>,
    << 21388, 63029, 101132, 40967, 179354, 76412, 32770, 158389, 61702, 80745, 144555, 197369, 196412, 74582, 65661, 94067, 69545, 79426, 76268, 45675, 67367, 140106, 58631, 54130, 174758, 56055, 61306, 0, 75568, 434283, 436096 >>,
    << 81160, 19056, 77569, 97840, 123925, 151963, 103066, 108828, 99237, 110187, 87047, 176933, 150151, 150146, 13996, 169600, 104341, 110339, 151831, 114873, 142861, 108541, 134038, 129536, 116220, 131367, 92601, 75568, 0, 375763, 509887 >>,
    << 449498, 377840, 336027, 423729, 255275, 497523, 467036, 275917, 474897, 485438, 291337, 267689, 239642, 495424, 389758, 508652, 396667, 485759, 496824, 446810, 491166, 299075, 484733, 480904, 261005, 483238, 468364, 434283, 375763, 0, 743070 >>,
    << 438406, 493622, 486757, 414102, 565618, 362480, 416405, 542883, 449772, 458013, 546825, 500161, 556901, 363950, 501537, 343900, 420962, 456084, 362327, 395132, 371840, 506625, 380791, 385067, 568464, 383755, 457313, 436096, 509887, 743070, 0 >>
>>

\* the same with cos(lat1) ** 2 in place of cos(lat1) * cos(lat2)
haversine_distance_CosLat1Squared(a, b) ==
    LET table == <<
    << 0, 72688, 124058, 60995, 194577, 78092, 22783, 176917, 40224, 59220, 158199, 237729, 218871, 76528, 67664, 98012, 92790, 57808, 78249, 59573, 68189, 165748, 58803, 54379, 187780, 55710, 40634, 21505, 79780, 423304, 498023 >>,
    << 73306, 0, 65385, 82181, 123960, 145101, 94643, 107259, 96311, 108902, 86859, 178121, 150306, 143103, 22426, 164530, 85741, 108749, 144942, 102301, 135263, 102440, 125830, 121011, 116740, 123032, 90764, 64111, 19046, 358261, 566903 >>,
    << 115539, 62869, 0, 90025, 83518, 163136, 129575, 61383, 146987, 161970, 59042, 107237, 95030, 161079, 84335, 178355, 69972, 161387, 162671, 113992, 155397, 39272, 148002, 143935, 82677, 146148, 143381, 98747, 76434, 308503, 532615 >>,
    << 60324, 78383, 87245, 0, 165680, 73068, 58853, 145314, 99599, 118544, 137014, 179663, 178501, 71013, 91306, 86681, 33901, 116984, 72467, 23423, 66604, 123523, 60845, 57575, 163059, 59821, 100647, 40925, 95709, 380825, 443476 >>,
    << 193878, 122473, 88708, 183104, 0, 258208, 213690, 23811, 215034, 224760, 36827, 95995, 34124, 256091, 134794, 275885, 163035, 225001, 257863, 208280, 249162, 59993, 240454, 235835, 10874, 238040, 208862, 181792, 121503, 242255, 652211 >>,
    << 73899, 133018, 161230, 74563, 236252, 0, 53105, 217283, 93204, 108159, 205241, 255764, 252368, 2105, 134955, 18779, 105921, 106129, 1063, 51357, 9332, 198675, 18219, 22539, 232133, 21107, 98899, 74454, 144538, 447359, 391450 >>,
    << 22455, 92156, 137481, 61072, 210372, 55187, 0, 192217, 46912, 65183, 175077, 247547, 232761, 53800, 88914, 74793, 96347, 63334, 55437, 50256, 45541, 178789, 36518, 32494, 204198, 33439, 50813, 32951, 100521, 435436, 467841 >>,
    << 171703, 103390, 64054, 157155, 23435, 231515, 190097, 0, 195585, 206765, 25360, 88168, 41713, 229421, 118303, 248379, 136712, 206788, 231134, 181928, 222882, 37038, 214577, 210126, 25799, 212327, 190035, 158432, 105727, 259131, 614746 >>,
    << 40686, 100433, 162661, 101897, 227883, 96052, 46919, 211967, 0, 19237, 189342, 282678, 256822, 95218, 85896, 114986, 135030, 17754, 96602, 96063, 87272, 205196, 79451, 76394, 219337, 76548, 8081, 62403, 100089, 459803, 523601 >>,
    << 60029, 115258, 180616, 121562, 243305, 110358, 65206, 228206, 19285, 0, 204108, 303063, 274123, 109780, 98012, 128389, 154880, 2077, 111013, 115071, 102245, 223313, 95183, 92613, 234066, 92457, 20545, 81752, 112302, 476109, 538283 >>,
    << 158583, 86330, 61335, 150969, 37044, 225055, 178877, 25759, 179849, 189957, 0, 113738, 66413, 222941, 98960, 243288, 134327, 190156, 224745, 175832, 215749, 50824, 206802, 202095, 30265, 204284, 173670, 146921, 85629, 276496, 630796 >>,
    << 200276, 155158, 97639, 163960, 95109, 228146, 209496, 85392, 231928, 246822, 108227, 0, 67913, 226351, 174724, 237975, 136283, 246113, 227527, 183789, 223033, 66701, 218113, 215149, 104482, 217144, 229256, 183112, 166010, 246545, 509090 >>,
    << 208155, 142119, 97988, 190076, 33446, 263769, 225493, 40936, 232265, 243338, 63684, 67913, 0, 261712, 156816, 279547, 166858, 243347, 263346, 214464, 255658, 60967, 247843, 243600, 44120, 245779, 226918, 194465, 144444, 224920, 624316 >>,
    << 72537, 131190, 159081, 72414, 234183, 2103, 51879, 215180, 92631, 107826, 203216, 253552, 250224, 0, 133346, 20225, 103772, 105798, 1686, 49224, 7946, 196501, 16730, 20967, 230097, 19666, 98230, 72678, 142847, 445421, 392922 >>,
    << 70028, 22565, 88235, 94141, 140553, 148739, 93419, 125804, 84619, 94606, 102517, 202243, 170067, 146856, 0, 169145, 103740, 94805, 148717, 111009, 138467, 124621, 128644, 123776, 131976, 125587, 77868, 67032, 14010, 375049, 585310 >>,
    << 91296, 147916, 171623, 86151, 246162, 18485, 70845, 227170, 109808, 124015, 216648, 260315, 260324, 19879, 150874, 0, 114423, 121990, 18285, 62979, 27633, 207378, 36331, 40488, 242656, 39213, 115663, 90833, 159949, 451663, 366160 >>,
    << 88879, 84907, 65946, 32877, 144529, 99426, 89922, 123289, 127934, 146535, 121405, 142752, 150753, 97485, 103480, 109807, 0, 145110, 98704, 51683, 94480, 95926, 90059, 87342, 144302, 89468, 128158, 68500, 103835, 352479, 439309 >>,
    << 58662, 114987, 179976, 120102, 243094, 108243, 63367, 227884, 17814, 2077, 203950, 302224, 273701, 107672, 98051, 126246, 153596, 0, 108900, 113333, 100153, 222719, 93124, 90579, 233931, 90408, 19784, 80465, 112355, 475796, 535420 >>,
    << 74058, 132721, 160440, 73805, 235497, 1063, 53369, 216502, 93810, 108870, 204605, 254587, 251446, 1684, 134866, 18577, 104981, 106840, 0, 50574, 9501, 197770, 18328, 22587, 231437, 21248, 99457, 74278, 144364, 446365, 390883 >>,
    << 59506, 95177, 110035, 23335, 187338, 50180, 49927, 167371, 95826, 114551, 158321, 200981, 200547, 48131, 104533, 63129, 53734, 112766, 49505, 0, 44561, 146118, 40146, 37678, 184432, 39812, 98486, 45387, 110870, 399928, 421997 >>,
    << 65034, 125100, 155361, 68665, 230494, 9405, 44180, 211549, 85383, 100906, 198831, 252467, 247481, 7994, 126637, 28292, 101353, 98880, 9574, 45968, 0, 193521, 8962, 13353, 226104, 11864, 90893, 65918, 136418, 444112, 404028 >>,
    << 151968, 95308, 38747, 125811, 58066, 198223, 166131, 36514, 181579, 195537, 50824, 70999, 58627, 196198, 114767, 212610, 101978, 195098, 197730, 149396, 190857, 0, 183795, 179870, 62005, 182051, 177600, 135845, 104796, 275053, 550779 >>,
    << 56501, 117307, 149472, 63194, 224623, 18492, 35712, 205711, 78321, 94486, 192379, 248877, 242402, 16959, 118513, 37471, 96993, 92476, 18606, 41517, 9026, 188252, 0, 4497, 219988, 3008, 83566, 57592, 128456, 440490, 416016 >>,
    << 52457, 113137, 145829, 59890, 221008, 22950, 31927, 202092, 75604, 92183, 188578, 246047, 239036, 21329, 114382, 41906, 94079, 90187, 23008, 38899, 13491, 184817, 4509, 0, 216302, 2345, 80632, 53246, 124323, 437767, 421456 >>,
    << 189770, 116960, 87887, 181655, 10936, 256797, 210345, 26008, 209763, 218971, 30500, 105985, 45274, 254669, 128219, 275041, 162861, 219293, 256479, 206922, 247473, 63401, 238501, 233776, 0, 235978, 203323, 178338, 114680, 248864, 660988 >>,
    << 53643, 115096, 148285, 62308, 223367, 21473, 32767, 204496, 75589, 91895, 190853, 248679, 241528, 19978, 116006, 40533, 96509, 89889, 21618, 41177, 11977, 187330, 3014, 2348, 218607, 0, 80780, 55155, 126073, 440094, 420284 >>,
    << 40817, 94839, 158346, 102206, 222163, 102640, 50947, 206531, 8111, 20364, 183490, 278691, 251608, 101681, 79352, 121980, 134031, 19599, 103139, 98524, 93542, 200601, 85318, 81966, 213440, 82321, 0, 61751, 93581, 454592, 533916 >>,
    << 21275, 61971, 103583, 41013, 176950, 78444, 32590, 158345, 61051, 79831, 142229, 213250, 198379, 76559, 64357, 97482, 70718, 78479, 78335, 45988, 68859, 144519, 59694, 55034, 171256, 56973, 60896, 0, 73797, 403441, 488192 >>,
    << 82569, 19067, 78826, 100261, 126401, 160022, 105694, 112052, 98391, 108119, 88492, 190041, 156151, 158074, 13981, 180273, 104956, 108365, 159948, 119380, 149799, 112668, 140010, 135103, 117782, 137012, 91632, 77419, 0, 361312, 595307 >>,
    << 477886, 398791, 367323, 474176, 269249, 556473, 501851, 294269, 490646, 495008, 307210, 294706, 256005, 554188, 405184, 577334, 450409, 495997, 556209, 502331, 545865, 326663, 535679, 530409, 273914, 532719, 482683, 468396, 390927, 0, 989084 >>,
    << 388119, 433143, 446040, 387098, 495374, 336059, 372195, 482652, 390355, 394865, 478513, 491439, 499674, 337519, 434367, 323212, 403546, 393505, 336248, 370319, 342735, 467159, 349188, 352508, 494467, 351098, 396016, 391112, 441486, 602148, 0 >>
>>
    IN  table[a][b]
haversine_distance(a, b) == HaversineTable[a][b]

\* str.upper() on the codes the model uses
Upper(s) ==
    CASE s = "atl" -> "ATL"
      [] s = "lax" -> "LAX"
      [] s = "jfk" -> "JFK"
      [] s = "xxx" -> "XXX"
      [] OTHER -> s

\* str.lower() on the unit names the model uses
Lower(s) ==
    CASE s = "KM" -> "km"
      [] s = "Kilometers" -> "kilometers"
      [] s = "Miles" -> "miles"
      [] OTHER -> s

\* AIRPORTS.get(iata.upper()) on the module's dict object
get_airport_CaseSensitive(iata) ==
    IF iata \in DOMAIN dicts["AIRPORTS"] THEN dicts["AIRPORTS"][iata] ELSE None
get_airport(iata) ==
    IF Upper(iata) \in DOMAIN dicts["AIRPORTS"]
    THEN dicts["AIRPORTS"][Upper(iata)]
    ELSE None

\* AIRPORTS.copy(): a new dict object with the entries of the module's dict;
\* the result is the reference returned and the dict objects after the call
list_all_airports_NoCopy ==
    [ ref |-> "AIRPORTS", dicts |-> dicts ]
list_all_airports ==
    [ ref |-> "snapshot",
      dicts |-> [ d \in DOMAIN dicts \cup { "snapshot" } |-> dicts["AIRPORTS"] ] ]

\* the factor 1.60934, as a count of 10^-5
KmFactor == 160934

\* distance_miles * 1.60934 as a count of 10^-5 km, rounded down; the product
\* is taken in two parts to stay within 32-bit integers
TimesKmFactor(distance_miles) ==
    distance_miles * (KmFactor \div 100)
        + (distance_miles * (KmFactor % 100)) \div 100

\* get_distance(iata1, iata2, unit): miles in hundredths of a mile,
\* kilometers in 10^-5 km
get_distance_in(iata1, iata2, unit) ==
    LET airport1 == get_airport(iata1)
        airport2 == get_airport(iata2)
        distance_miles == haversine_distance(airport1, airport2)
    IN  IF airport1 = None \/ airport2 = None
        THEN None
        ELSE IF Lower(unit) = "kilometers" \/ Lower(unit) = "km"
             THEN TimesKmFactor(distance_miles)
             ELSE distance_miles

\* get_distance with the default unit 'miles'
get_distance(iata1, iata2) == get_distance_in(iata1, iata2, "miles")

(***************************************************************************)
(* flight_network.py                                                       *)
(***************************************************************************)
US_AIRPORTS ==
    << "ATL", "DFW", "DEN", "ORD", "LAX", "JFK", "CLT", "LAS", "MCO", "MIA",
       "PHX", "SEA", "SFO", "EWR", "IAH", "BOS", "MSP", "FLL", "LGA", "DTW",
       "PHL", "SLC", "BWI", "IAD", "SAN", "DCA", "TPA", "BNA", "AUS", "HNL" >>

MAJOR_HUBS == << "ATL", "DFW", "DEN", "ORD" >>

\* the literal 150 of the generator and of should_create_direct_flight
MinDistance_TooLow == 15 * 100
MinDistance == 15000

\* the literal 1000 of should_create_direct_flight
DirectCeiling == 100000

\* the literal 0.85 of should_create_direct_flight, in hundredths
EfficiencyPct == 85

Flight(origin, destination, distance, is_direct, via_hub) ==
    [ origin |-> origin, destination |-> destination, distance |-> distance,
      is_direct |-> is_direct, via_hub |-> via_hub ]

\* truth value of an Optional[float]: None and 0.0 are false
Truthy(d) == d # None /\ d # 0

\* the loop of calculate_minimum_distance_through_hubs from hub number k on
RECURSIVE MinThroughHubs(_, _, _, _, _, _)
MinThroughHubs(origin, destination, hubs, k, min_distance, best_hub) ==
    IF k > Len(hubs)
    THEN << min_distance, best_hub >>
    ELSE LET hub == hubs[k]
             dist1 == get_distance(origin, hub)
             dist2 == get_distance(hub, destination)
         IN  IF hub = origin \/ hub = destination
             THEN MinThroughHubs(origin, destination, hubs, k + 1,
                                 min_distance, best_hub)
             ELSE IF Truthy(dist1) /\ Truthy(dist2)
                     /\ (min_distance = Inf \/ dist1 + dist2 < min_distance)
                  THEN MinThroughHubs(origin, destination, hubs, k + 1,
                                      dist1 + dist2, hub)
                  ELSE MinThroughHubs(origin, destination, hubs, k + 1,
                                      min_distance, best_hub)

calculate_minimum_distance_through_hubs(origin, destination, hubs) ==
    MinThroughHubs(origin, destination, hubs, 1, Inf, NoCode)

\* efficiency_ratio as the fraction << numerator, denominator >>:
\* direct_distance / hub_distance if hub_distance > 0 else 1.0,
\* where x / inf is 0.0 and inf > 0 is true
efficiency_ratio(direct_distance, hub_distance) ==
    IF hub_distance = Inf
    THEN << 0, 1 >>
    ELSE IF hub_distance > 0
         THEN << direct_distance, hub_distance >>
         ELSE << 1, 1 >>

should_create_direct_flight_NoCeiling(origin, destination, direct_distance, hubs) ==
    IF direct_distance < MinDistance
    THEN FALSE
    ELSE LET hub_distance ==
                 calculate_minimum_distance_through_hubs(origin, destination, hubs)[1]
             ratio == efficiency_ratio(direct_distance, hub_distance)
         IN  100 * ratio[1] <= EfficiencyPct * ratio[2]
should_create_direct_flight(origin, destination, direct_distance, hubs) ==
    IF direct_distance < MinDistance
    THEN FALSE
    ELSE LET hub_distance ==
                 calculate_minimum_distance_through_hubs(origin, destination, hubs)[1]
             ratio == efficiency_ratio(direct_distance, hub_distance)
         IN  IF direct_distance < DirectCeiling
             THEN TRUE
             ELSE 100 * ratio[1] <= EfficiencyPct * ratio[2]

\* `distance and distance >= 150` of the three generation passes
DistanceOk_Exclusive(distance) == Truthy(distance) /\ distance > MinDistance
DistanceOk(distance) == Truthy(distance) /\ distance >= MinDistance

\* the two appends of passes 2 and 3: an edge a -> b and an edge b -> a
BothDirections_OneWay(a, b, distance) ==
    << Flight(a, b, distance, TRUE, NoCode) >>
BothDirections(a, b, distance) ==
    << Flight(a, b, distance, TRUE, NoCode),
       Flight(b, a, distance, TRUE, NoCode) >>

\* what one iteration of a pass does with its candidate pair: the edges it
\* appends to flights and the pairs it adds to processed_pairs
NoEffect == [ edges |-> << >>, pairs |-> {} ]

\* pass 1, body of the inner loop for hub1, hub2
HubPairBody(hub1, hub2, distance) ==
    IF DistanceOk(distance)
    THEN [ edges |-> << Flight(hub1, hub2, distance, TRUE, NoCode) >>,
           pairs |-> { << hub1, hub2 >>, << hub2, hub1 >> } ]
    ELSE NoEffect

\* pass 2, body of the inner loop for airport, hub
SpokeHubBody(airport, hub, distance) ==
    IF DistanceOk(distance)
    THEN [ edges |-> BothDirections(airport, hub, distance),
           pairs |-> { << airport, hub >>, << hub, airport >> } ]
    ELSE NoEffect

\* pass 3, the part of the inner loop behind the three skips
DirectPairBody_MarksAlways(origin, destination, direct_distance, hubs) ==
    IF /\ DistanceOk(direct_distance)
       /\ should_create_direct_flight(origin, destination, direct_distance, hubs)
    THEN [ edges |-> BothDirections(origin, destination, direct_distance),
           pairs |-> { << origin, destination >>, << destination, origin >> } ]
    ELSE [ edges |-> << >>,
           pairs |-> { << origin, destination >>, << destination, origin >> } ]
DirectPairBody(origin, destination, direct_distance, hubs) ==
    IF /\ DistanceOk(direct_distance)
       /\ should_create_direct_flight(origin, destination, direct_distance, hubs)
    THEN [ edges |-> BothDirections(origin, destination, direct_distance),
           pairs |-> { << origin, destination >>, << destination, origin >> } ]
    ELSE NoEffect

\* `if airport in MAJOR_HUBS: continue` of pass 2
IsHubAirport_Never(airport) == FALSE
IsHubAirport(airport) == airport \in Range(MAJOR_HUBS)

(***************************************************************************)
(* generate_flight_network, one loop iteration per step.                   *)
(*   pc = "hub_hub"   : pass 1, (i, j) index the hub pair hub1, hub2       *)
(*   pc = "spoke_hub" : pass 2, i indexes the airport, j the hub           *)
(*   pc = "direct"    : pass 3, (i, j) index origin and destination        *)
(***************************************************************************)
NoCall == [ op |-> "none" ]

NHubs == Len(MAJOR_HUBS)
NAirports == Len(US_AIRPORTS)
HubSet == Range(MAJOR_HUBS)

\* `flights: List[Flight] = []` makes a new list object in every call; the
\* n-th call's list is object n
NewList_ModuleLevel == 0 + 1
NewList == runs + 1

\* an append to flights shows in every variable that holds the same list
\* object: the contents of the caller's list after flights has become new
AliasOfFlights(new) ==
    IF prev_ref = flights_ref /\ flights_ref # NoList THEN new ELSE prev_flights

\* the call starts: flights = [], processed_pairs = set(); the caller keeps
\* the sequence an earlier call returned
GenerateStart_StalePairs ==
    /\ pc \in {"idle", "done"}
    /\ runs < MaxRuns
    /\ runs' = runs + 1
    /\ prev_ref' = IF pc = "done" THEN flights_ref ELSE prev_ref
    /\ flights_ref' = NewList
    /\ flights' = << >>
    /\ prev_flights' = IF prev_ref' = flights_ref'
                       THEN flights'
                       ELSE IF pc = "done" THEN flights ELSE prev_flights
    /\ pc' = "hub_hub"
    /\ i' = 1
    /\ j' = 2
    /\ UNCHANGED << processed_pairs, call, ret, dicts, listing >>

GenerateStart ==
    /\ pc \in {"idle", "done"}
    /\ runs < MaxRuns
    /\ runs' = runs + 1
    /\ prev_ref' = IF pc = "done" THEN flights_ref ELSE prev_ref
    /\ flights_ref' = NewList
    /\ flights' = << >>
    /\ prev_flights' = IF prev_ref' = flights_ref'
                       THEN flights'
                       ELSE IF pc = "done" THEN flights ELSE prev_flights
    /\ processed_pairs' = {}
    /\ pc' = "hub_hub"
    /\ i' = 1
    /\ j' = 2
    /\ UNCHANGED << call, ret, dicts, listing >>

\* for i, hub1 in enumerate(MAJOR_HUBS): for hub2 in MAJOR_HUBS[i+1:]
HubHubStep ==
    /\ pc = "hub_hub"
    /\ LET hub1 == MAJOR_HUBS[i]
           hub2 == MAJOR_HUBS[j]
           distance == get_distance(hub1, hub2)
           body == HubPairBody(hub1, hub2, distance)
       IN  /\ flights' = flights \o body.edges
           /\ processed_pairs' = processed_pairs \cup body.pairs
    /\ IF j < NHubs
       THEN /\ j' = j + 1
            /\ UNCHANGED << i, pc >>
       ELSE IF i + 1 < NHubs
            THEN /\ i' = i + 1
                 /\ j' = i + 2
                 /\ UNCHANGED pc
            ELSE /\ pc' = "spoke_hub"
                 /\ i' = 1
                 /\ j' = 1
    /\ prev_flights' = AliasOfFlights(flights')
    /\ UNCHANGED << runs, call, ret, dicts, listing, flights_ref, prev_ref >>

\* advance the loops of pass 2 past airport number a
SpokeNextAirport(a) ==
    IF a < NAirports
    THEN /\ i' = a + 1
         /\ j' = 1
         /\ UNCHANGED pc
    ELSE /\ pc' = "direct"
         /\ i' = 1
         /\ j' = 2

\* for airport in US_AIRPORTS: for hub in MAJOR_HUBS
SpokeHubStep ==
    /\ pc = "spoke_hub"
    /\ LET airport == US_AIRPORTS[i]
           hub == MAJOR_HUBS[j]
           distance == get_distance(airport, hub)
           body == SpokeHubBody(airport, hub, distance)
       IN  IF IsHubAirport(airport)
           THEN /\ UNCHANGED << flights, processed_pairs >>
                /\ SpokeNextAirport(i)
           ELSE /\ flights' = flights \o body.edges
                /\ processed_pairs' = processed_pairs \cup body.pairs
                /\ IF j < NHubs
                   THEN /\ j' = j + 1
                        /\ UNCHANGED << i, pc >>
                   ELSE SpokeNextAirport(i)
    /\ prev_flights' = AliasOfFlights(flights')
    /\ UNCHANGED << runs, call, ret, dicts, listing, flights_ref, prev_ref >>

\* the three `continue` tests of pass 3
SkipDirectPair_Never(origin, destination) == FALSE
SkipDirectPair(origin, destination) ==
    \/ << origin, destination >> \in processed_pairs
    \/ (origin \in HubSet /\ destination \in HubSet)
    \/ (origin \in HubSet \/ destination \in HubSet)

\* for i, origin in enumerate(US_AIRPORTS): for destination in US_AIRPORTS[i+1:]
DirectPairStep ==
    /\ pc = "direct"
    /\ LET origin == US_AIRPORTS[i]
           destination == US_AIRPORTS[j]
           direct_distance == get_distance(origin, destination)
           body == DirectPairBody(origin, destination, direct_distance, MAJOR_HUBS)
       IN  IF SkipDirectPair(origin, destination)
           THEN UNCHANGED << flights, processed_pairs >>
           ELSE /\ flights' = flights \o body.edges
                /\ processed_pairs' = processed_pairs \cup body.pairs
    /\ IF j < NAirports
       THEN /\ j' = j + 1
            /\ UNCHANGED << i, pc >>
       ELSE IF i + 1 < NAirports
            THEN /\ i' = i + 1
                 /\ j' = i + 2
                 /\ UNCHANGED pc
            ELSE /\ pc' = "done"
                 /\ UNCHANGED << i, j >>
    /\ prev_flights' = AliasOfFlights(flights')
    /\ UNCHANGED << runs, call, ret, dicts, listing, flights_ref, prev_ref >>


Init ==
    /\ pc = "idle"
    /\ i = 1
    /\ j = 2
    /\ flights = << >>
    /\ processed_pairs = {}
    /\ runs = 0
    /\ prev_flights = << >>
    /\ call = NoCall
    /\ ret = NoCall
    /\ HeapInit

Next ==
    \/ GenerateStart
    \/ HubHubStep
    \/ SpokeHubStep
    \/ DirectPairStep

Spec == Init /\ [][Next]_vars

(***************************************************************************)
(* get_route_options                                                       *)
(***************************************************************************)
\* options.sort(key=lambda x: x['distance']): list.sort is stable, so x goes
\* behind every option already placed whose distance is not larger
SortInsert_Unstable(sorted, x) ==
    LET n == Cardinality({ k \in DOMAIN sorted : sorted[k].distance < x.distance })
    IN  SubSeq(sorted, 1, n) \o << x >> \o SubSeq(sorted, n + 1, Len(sorted))
SortInsert(sorted, x) ==
    LET n == Cardinality({ k \in DOMAIN sorted : sorted[k].distance <= x.distance })
    IN  SubSeq(sorted, 1, n) \o << x >> \o SubSeq(sorted, n + 1, Len(sorted))

RECURSIVE SortFrom(_, _, _)
SortFrom(options, k, sorted) ==
    IF k > Len(options)
    THEN sorted
    ELSE SortFrom(options, k + 1, SortInsert(sorted, options[k]))

SortByDistance(options) == SortFrom(options, 1, << >>)

\* the direct option, as a list of zero or one options
DirectOption_AnyEdge(origin, destination, fl) ==
    LET direct_flights ==
            SelectSeq(fl, LAMBDA f : f.origin = origin
                                     /\ f.destination = destination)
    IN  IF direct_flights # << >>
        THEN << [ type |-> "direct", route |-> << origin, destination >>,
                  distance |-> direct_flights[1].distance, stops |-> 0 ] >>
        ELSE << >>
DirectOption(origin, destination, fl) ==
    LET direct_flights ==
            SelectSeq(fl, LAMBDA f : f.origin = origin
                                     /\ f.destination = destination
                                     /\ f.is_direct)
    IN  IF direct_flights # << >>
        THEN << [ type |-> "direct", route |-> << origin, destination >>,
                  distance |-> direct_flights[1].distance, stops |-> 0 ] >>
        ELSE << >>

\* `if hub == origin or hub == destination: continue`
SkipHub_Never(hub, origin, destination) == FALSE
SkipHub(hub, origin, destination) == hub = origin \/ hub = destination

\* for hub in MAJOR_HUBS, from hub number k on
RECURSIVE HubOptions(_, _, _, _)
HubOptions(origin, destination, fl, k) ==
    IF k > Len(MAJOR_HUBS)
    THEN << >>
    ELSE LET hub == MAJOR_HUBS[k]
             leg1 == SelectSeq(fl, LAMBDA f : f.origin = origin
                                              /\ f.destination = hub)
             leg2 == SelectSeq(fl, LAMBDA f : f.origin = hub
                                              /\ f.destination = destination)
             rest == HubOptions(origin, destination, fl, k + 1)
         IN  IF SkipHub(hub, origin, destination)
             THEN rest
             ELSE IF leg1 # << >> /\ leg2 # << >>
                  THEN << [ type |-> "hub_connection",
                            route |-> << origin, hub, destination >>,
                            distance |-> leg1[1].distance + leg2[1].distance,
                            stops |-> 1, hub |-> hub ] >> \o rest
                  ELSE rest

get_route_options(origin, destination, fl) ==
    SortByDistance(DirectOption(origin, destination, fl)
                   \o HubOptions(origin, destination, fl, 1))

(***************************************************************************)
(* verify_network_constraints and analyze_network_statistics               *)
(***************************************************************************)
\* `if flight.distance < 150`
IsViolation_Inclusive(flight) == flight.distance <= 15000
IsViolation(flight) == flight.distance < 15000

\* the text "origin -> destination: distance miles" of one violation
Violation(flight) == << flight.origin, flight.destination, flight.distance >>

\* returns (all_valid, list_of_violations): the loop appends the text of
\* every violating flight, in the order of the flights
verify_network_constraints(fl) ==
    LET violating == SelectSeq(fl, IsViolation)
        violations == [ k \in DOMAIN violating |-> Violation(violating[k]) ]
    IN  << Len(violations) = 0, violations >>

\* sum(f.distance for f in flights[lo..hi]), by halves
RECURSIVE SumDistance(_, _, _)
SumDistance(fl, lo, hi) ==
    IF lo > hi THEN 0
    ELSE IF lo = hi THEN fl[lo].distance
    ELSE LET mid == (lo + hi) \div 2
         IN  SumDistance(fl, lo, mid) + SumDistance(fl, mid + 1, hi)

\* tuple(sorted([origin, destination])): the pair with the two codes in order;
\* a set of the two codes identifies it
SortedPair_Directed(flight) == << flight.origin, flight.destination >>
SortedPair(flight) == { flight.origin, flight.destination }

\* round(a / b, 2) for a in hundredths: the nearest hundredth, a tie going to
\* the even one
Round2Div(a, b) ==
    LET q == a \div b
        r == a % b
    IN  IF 2 * r < b THEN q
        ELSE IF 2 * r > b THEN q + 1
        ELSE IF q % 2 = 0 THEN q ELSE q + 1

analyze_network_statistics(fl) ==
    LET direct_flights == SelectSeq(fl, LAMBDA f : f.is_direct)
        hub_connections ==
            Len(SelectSeq(fl, LAMBDA f : f.origin \in HubSet
                                         \/ f.destination \in HubSet))
        total_distance == SumDistance(fl, 1, Len(fl))
        unique_pairs == { SortedPair(fl[k]) : k \in DOMAIN fl }
    IN  [ total_flights |-> Len(fl),
          unique_routes |-> Cardinality(unique_pairs),
          direct_flights |-> Len(direct_flights),
          hub_connections |-> hub_connections,
          \* distances are whole hundredths, which round(total, 2) keeps
          total_network_distance |-> total_distance,
          average_flight_distance |->
              IF fl # << >> THEN Round2Div(total_distance, Len(fl)) ELSE 0,
          hubs |-> MAJOR_HUBS,
          airports_served |-> Len(US_AIRPORTS) ]

(***************************************************************************)
(* Callers of the pure functions: the arguments are drawn from small sets, *)
(* one call per behaviour, the call and what it returned kept in call and  *)
(* ret.                                                                    *)
(***************************************************************************)
SeqsUpTo(S, n) == UNION { [ 1..k -> S ] : k \in 0..n }

\* the pairs a caller asks routes for: two non-hub airports, a hub as the
\* destination, a hub as the origin, and XXX, a code the catalog does not have
QueryPairs ==
    { << "LAX", "JFK" >>, << "LAX", "ATL" >>, << "ATL", "JFK" >>,
      << "XXX", "JFK" >> }

\* edges of the sequences handed to get_route_options: the legs of
\* LAX -> JFK directly and through ATL and DFW, and a loop at the hub ATL
RouteEdgePairs ==
    { << "LAX", "JFK" >>, << "LAX", "ATL" >>, << "ATL", "JFK" >>,
      << "LAX", "DFW" >>, << "DFW", "JFK" >>, << "ATL", "ATL" >> }
\* << distance, is_direct >> of these edges
RouteEdgeKinds == { << 10000, FALSE >>, << 20000, TRUE >>, << 30000, TRUE >> }
RouteEdges ==
    { Flight(p[1], p[2], k[1], k[2], NoCode) :
        p \in RouteEdgePairs, k \in RouteEdgeKinds }

InitRoute ==
    /\ pc = "query"
    /\ i = 1
    /\ j = 2
    /\ \E n \in 0..MaxRouteLen : flights \in [ 1..n -> RouteEdges ]
    /\ processed_pairs = {}
    /\ runs = 0
    /\ prev_flights = << >>
    /\ call = NoCall
    /\ ret = NoCall
    /\ HeapInit

GetRouteOptions ==
    /\ pc \in { "query", "done" }
    /\ call = NoCall
    /\ \E q \in QueryPairs :
          /\ call' = [ op |-> "get_route_options",
                       origin |-> q[1], destination |-> q[2] ]
          /\ ret' = [ options |-> get_route_options(q[1], q[2], flights) ]
    /\ UNCHANGED << pc, i, j, flights, processed_pairs, runs, prev_flights >>
    /\ UNCHANGED << dicts, listing, flights_ref, prev_ref >>

NextRoute == GetRouteOptions

SpecRoute == InitRoute /\ [][NextRoute]_vars

\* edges of the sequences handed to the auditor
AuditEdgePairs ==
    { << "LAX", "JFK" >>, << "JFK", "LAX" >>, << "LAX", "ATL" >> }
AuditDistances == { 10000, 15000, 20000 }
AuditEdges ==
    { Flight(p[1], p[2], d, b, NoCode) :
        p \in AuditEdgePairs, d \in AuditDistances, b \in BOOLEAN }

InitAudit ==
    /\ pc = "query"
    /\ i = 1
    /\ j = 2
    /\ \E n \in 0..MaxAuditLen : flights \in [ 1..n -> AuditEdges ]
    /\ processed_pairs = {}
    /\ runs = 0
    /\ prev_flights = << >>
    /\ call = NoCall
    /\ ret = NoCall
    /\ HeapInit

VerifyNetworkConstraints ==
    /\ pc \in { "query", "done" }
    /\ call = NoCall
    /\ call' = [ op |-> "verify_network_constraints" ]
    /\ ret' = [ result |-> verify_network_constraints(flights) ]
    /\ UNCHANGED << pc, i, j, flights, processed_pairs, runs, prev_flights >>
    /\ UNCHANGED << dicts, listing, flights_ref, prev_ref >>

AnalyzeNetworkStatistics ==
    /\ pc \in { "query", "done" }
    /\ call = NoCall
    /\ call' = [ op |-> "analyze_network_statistics" ]
    /\ ret' = [ stats |-> analyze_network_statistics(flights) ]
    /\ UNCHANGED << pc, i, j, flights, processed_pairs, runs, prev_flights >>
    /\ UNCHANGED << dicts, listing, flights_ref, prev_ref >>

NextAudit ==
    \/ VerifyNetworkConstraints
    \/ AnalyzeNetworkStatistics

SpecAudit == InitAudit /\ [][NextAudit]_vars

\* arguments handed to should_create_direct_flight
DirectCodes == { "LAX", "JFK", "ATL", "atl", "XXX" }
DirectHubCodes == { "ATL", "DFW", "atl", "XXX" }
DirectDistances == { 14999, 15000, 99999, 100000, 250000 }

InitDirect ==
    /\ pc = "query"
    /\ i = 1
    /\ j = 2
    /\ flights = << >>
    /\ processed_pairs = {}
    /\ runs = 0
    /\ prev_flights = << >>
    /\ call = NoCall
    /\ ret = NoCall
    /\ HeapInit

ShouldCreateDirectFlight ==
    /\ pc = "query"
    /\ call = NoCall
    /\ \E origin \in DirectCodes, destination \in DirectCodes,
          direct_distance \in DirectDistances,
          hubs \in SeqsUpTo(DirectHubCodes, MaxHubs) :
          /\ call' = [ op |-> "should_create_direct_flight",
                       origin |-> origin, destination |-> destination,
                       direct_distance |-> direct_distance, hubs |-> hubs ]
          /\ ret' = [ create |-> should_create_direct_flight(
                                     origin, destination, direct_distance, hubs),
                      min_hub |-> calculate_minimum_distance_through_hubs(
                                     origin, destination, hubs) ]
    /\ UNCHANGED << pc, i, j, flights, processed_pairs, runs, prev_flights >>
    /\ UNCHANGED << dicts, listing, flights_ref, prev_ref >>

NextDirect == ShouldCreateDirectFlight

SpecDirect == InitDirect /\ [][NextDirect]_vars

\* arguments handed to get_distance: every code of the catalog, lower-case
\* spellings, and codes the catalog does not have
DistanceCodes == Range(AirportCodes) \cup { "atl", "lax", "jfk", "XXX", "xxx" }
DistanceUnits == { "miles", "Miles", "km", "KM", "kilometers", "furlongs" }

InitDistance ==
    /\ pc = "query"
    /\ i = 1
    /\ j = 2
    /\ flights = << >>
    /\ processed_pairs = {}
    /\ runs = 0
    /\ prev_flights = << >>
    /\ call = NoCall
    /\ ret = NoCall
    /\ HeapInit

GetDistance ==
    /\ pc = "query"
    /\ call = NoCall
    /\ \E iata1 \in DistanceCodes, iata2 \in DistanceCodes, unit \in DistanceUnits :
          /\ call' = [ op |-> "get_distance", iata1 |-> iata1, iata2 |-> iata2,
                       unit |-> unit ]
          /\ ret' = [ distance |-> get_distance_in(iata1, iata2, unit) ]
    /\ UNCHANGED << pc, i, j, flights, processed_pairs, runs, prev_flights >>
    /\ UNCHANGED << dicts, listing, flights_ref, prev_ref >>

NextDistance == GetDistance

SpecDistance == InitDistance /\ [][NextDistance]_vars

\* one iteration of a generation pass on a candidate pair whose distance the
\* caller supplies; None and 0.0 are what get_distance gives for an unknown
\* code and for twice the same place
PassDistances == { None, 0, 14999, 15000, 15001, 99999, 100000, 250000 }
PassSpokes == { "LAX", "JFK", "SAN", "HNL" }

InitPass ==
    /\ pc = "query"
    /\ i = 1
    /\ j = 2
    /\ flights = << >>
    /\ processed_pairs = {}
    /\ runs = 0
    /\ prev_flights = << >>
    /\ call = NoCall
    /\ ret = NoCall
    /\ HeapInit

CandidateHubPair ==
    /\ pc = "query"
    /\ call = NoCall
    /\ \E m \in DOMAIN MAJOR_HUBS, n \in DOMAIN MAJOR_HUBS,
          distance \in PassDistances :
          /\ m < n
          /\ call' = [ op |-> "hub_hub", a |-> MAJOR_HUBS[m], b |-> MAJOR_HUBS[n],
                       distance |-> distance ]
          /\ ret' = HubPairBody(MAJOR_HUBS[m], MAJOR_HUBS[n], distance)
    /\ UNCHANGED << pc, i, j, flights, processed_pairs, runs, prev_flights >>
    /\ UNCHANGED << dicts, listing, flights_ref, prev_ref >>

CandidateSpokeHub ==
    /\ pc = "query"
    /\ call = NoCall
    /\ \E airport \in PassSpokes, n \in DOMAIN MAJOR_HUBS,
          distance \in PassDistances :
          /\ call' = [ op |-> "spoke_hub", a |-> airport, b |-> MAJOR_HUBS[n],
                       distance |-> distance ]
          /\ ret' = SpokeHubBody(airport, MAJOR_HUBS[n], distance)
    /\ UNCHANGED << pc, i, j, flights, processed_pairs, runs, prev_flights >>
    /\ UNCHANGED << dicts, listing, flights_ref, prev_ref >>

CandidateDirectPair ==
    /\ pc = "query"
    /\ call = NoCall
    /\ \E origin \in PassSpokes, destination \in PassSpokes,
          distance \in PassDistances :
          /\ origin # destination
          /\ call' = [ op |-> "direct", a |-> origin, b |-> destination,
                       distance |-> distance ]
          /\ ret' = DirectPairBody(origin, destination, distance, MAJOR_HUBS)
    /\ UNCHANGED << pc, i, j, flights, processed_pairs, runs, prev_flights >>
    /\ UNCHANGED << dicts, listing, flights_ref, prev_ref >>

NextPass ==
    \/ CandidateHubPair
    \/ CandidateSpokeHub
    \/ CandidateDirectPair

SpecPass == InitPass /\ [][NextPass]_vars

(***************************************************************************)
(* A caller that lists the airports, changes the dict it got, looks        *)
(* airports up, generates networks and queries them.                       *)
(***************************************************************************)
\* codes the caller stores under, deletes, and looks up
StoredCodes == { "ATL", "XXX" }
DeletedCodes == { "ATL" }
LookupCodes == { "ATL", "atl", "XXX", "LAX" }

\* airports = list_all_airports()
ListAllAirports ==
    /\ pc \in { "idle", "done" }
    /\ call = NoCall
    /\ listing = NoDict
    /\ listing' = list_all_airports.ref
    /\ dicts' = list_all_airports.dicts
    /\ UNCHANGED << pc, i, j, flights, processed_pairs, runs, prev_flights,
                    call, ret, flights_ref, prev_ref >>

\* airports[code] = airports['JFK']: a new entry, or a new value for a code
\* the dict has
StoreEntry ==
    /\ pc \in { "idle", "done" }
    /\ call = NoCall
    /\ listing # NoDict
    /\ "JFK" \in DOMAIN dicts[listing]
    /\ \E code \in StoredCodes :
          LET entries == dicts[listing]
              stored == [ c \in DOMAIN entries \cup { code } |->
                            IF c = code THEN entries["JFK"] ELSE entries[c] ]
          IN  /\ stored # entries
              /\ dicts' = [ dicts EXCEPT ![listing] = stored ]
    /\ UNCHANGED << pc, i, j, flights, processed_pairs, runs, prev_flights,
                    call, ret, listing, flights_ref, prev_ref >>

\* del airports[code]
DeleteEntry ==
    /\ pc \in { "idle", "done" }
    /\ call = NoCall
    /\ listing # NoDict
    /\ \E code \in DeletedCodes \cap DOMAIN dicts[listing] :
          LET entries == dicts[listing]
          IN  dicts' = [ dicts EXCEPT ![listing] =
                           [ c \in DOMAIN entries \ { code } |-> entries[c] ] ]
    /\ UNCHANGED << pc, i, j, flights, processed_pairs, runs, prev_flights,
                    call, ret, listing, flights_ref, prev_ref >>

GetAirport ==
    /\ pc \in { "idle", "done" }
    /\ call = NoCall
    /\ \E iata \in LookupCodes :
          /\ call' = [ op |-> "get_airport", iata |-> iata ]
          /\ ret' = [ airport |-> get_airport(iata) ]
    /\ UNCHANGED << pc, i, j, flights, processed_pairs, runs, prev_flights >>
    /\ UNCHANGED << dicts, listing, flights_ref, prev_ref >>

NextFrame ==
    \/ ListAllAirports
    \/ StoreEntry
    \/ DeleteEntry
    \/ GetAirport
    \/ GenerateStart
    \/ HubHubStep
    \/ SpokeHubStep
    \/ DirectPairStep
    \/ GetRouteOptions
    \/ VerifyNetworkConstraints
    \/ AnalyzeNetworkStatistics

SpecFrame == Init /\ [][NextFrame]_vars

(***************************************************************************)
(* Properties of generate_flight_network (specification Spec)              *)
(***************************************************************************)
\* there is an edge origin -> destination in fl
HasEdge(fl, origin, destination) ==
    \E k \in DOMAIN fl : fl[k].origin = origin /\ fl[k].destination = destination

\* the positions of the edges origin -> destination in fl
EdgesAt(fl, origin, destination) ==
    { k \in DOMAIN fl : fl[k].origin = origin /\ fl[k].destination = destination }

NonHubAirports == Range(US_AIRPORTS) \ HubSet

\* C1: every edge the generator has emitted is at least 150 miles long, and
\* verify_network_constraints on the returned sequence answers (True, []).
C1_MinDistance ==
    /\ \A k \in DOMAIN flights : flights[k].distance >= 15000
    /\ pc = "done" => verify_network_constraints(flights) = << TRUE, << >> >>

\* C1 witness: a finished network in which JFK and LGA, 10.63 miles apart,
\* were examined and got no edge.
C1_Witness ==
    /\ pc = "done"
    /\ Len(flights) > 0
    /\ get_distance("JFK", "LGA") < 15000
    /\ ~ HasEdge(flights, "JFK", "LGA")

\* C2: once generation has finished, every two distinct hubs h1, h2 have an
\* edge h1 -> h2 and an edge h2 -> h1.
C2_HubPairsBothDirections ==
    pc = "done" =>
        \A h1 \in HubSet, h2 \in HubSet :
            h1 # h2 => HasEdge(flights, h1, h2) /\ HasEdge(flights, h2, h1)

\* C3: once generation has finished, every non-hub airport A has for each hub
\* H exactly one edge A -> H and exactly one edge H -> A, of equal distance,
\* which makes 8 edges between A and the hubs.
C3_SpokeCoverage ==
    pc = "done" =>
        \A a \in NonHubAirports :
            /\ \A h \in HubSet :
                  /\ Cardinality(EdgesAt(flights, a, h)) = 1
                  /\ Cardinality(EdgesAt(flights, h, a)) = 1
                  /\ \A m \in EdgesAt(flights, a, h), n \in EdgesAt(flights, h, a) :
                        flights[m].distance = flights[n].distance
            /\ Cardinality({ k \in DOMAIN flights :
                    \/ flights[k].origin = a /\ flights[k].destination \in HubSet
                    \/ flights[k].destination = a /\ flights[k].origin \in HubSet }) = 8

\* C3 witness: a finished network with the edges HNL -> ORD and ORD -> HNL.
C3_Witness ==
    /\ pc = "done"
    /\ HasEdge(flights, "HNL", "ORD")
    /\ HasEdge(flights, "ORD", "HNL")

\* C4: a call of generate_flight_network returns the sequence the call before
\* it returned: the same edges, field by field, in the same order.
C4_Deterministic ==
    (pc = "done" /\ runs >= 2) =>
        /\ Len(flights) = Len(prev_flights)
        /\ \A k \in DOMAIN flights :
              /\ flights[k].origin = prev_flights[k].origin
              /\ flights[k].destination = prev_flights[k].destination
              /\ flights[k].distance = prev_flights[k].distance
              /\ flights[k].is_direct = prev_flights[k].is_direct
              /\ flights[k].via_hub = prev_flights[k].via_hub

\* C4 witness: a second call has finished and returned edges of all three
\* passes.
C4_Witness ==
    /\ pc = "done"
    /\ runs >= 2
    /\ HasEdge(flights, "ATL", "DFW")
    /\ HasEdge(flights, "LAX", "ATL")
    /\ HasEdge(flights, "LAX", "LAS")

(***************************************************************************)
(* Properties of get_route_options (specification SpecRoute)               *)
(***************************************************************************)
RouteCalled == call.op = "get_route_options"

\* the first edge origin -> destination of fl
FirstEdge(fl, origin, destination) ==
    LET at == EdgesAt(fl, origin, destination)
    IN  fl[CHOOSE k \in at : \A m \in at : k <= m]

\* the positions of the direct edges origin -> destination of fl
DirectEdgesAt(fl, origin, destination) ==
    { k \in EdgesAt(fl, origin, destination) : fl[k].is_direct }

\* a hub other than origin and destination has both legs in fl
HubConnects(fl, origin, hub, destination) ==
    /\ hub \in HubSet
    /\ hub # origin
    /\ hub # destination
    /\ HasEdge(fl, origin, hub)
    /\ HasEdge(fl, hub, destination)

\* C5: the options returned for (origin, destination) are a direct option
\* exactly when a direct edge origin -> destination exists, one hub_connection
\* option through each hub that is neither origin nor destination and has both
\* legs, each with its path, stop count and distance, and nothing else.
C5_RouteOptions ==
    RouteCalled =>
        LET o == call.origin
            d == call.destination
            opts == ret.options
            directAt == DirectEdgesAt(flights, o, d)
        IN  /\ (\E n \in DOMAIN opts : opts[n].type = "direct") <=> directAt # {}
            /\ \A h \in HubSet :
                  (\E n \in DOMAIN opts :
                       opts[n].type = "hub_connection" /\ opts[n].hub = h)
                  <=> HubConnects(flights, o, h, d)
            /\ \A n \in DOMAIN opts :
                  \/ /\ opts[n].type = "direct"
                     /\ opts[n].route = << o, d >>
                     /\ opts[n].stops = 0
                     /\ opts[n].distance =
                            flights[CHOOSE k \in directAt :
                                        \A m \in directAt : k <= m].distance
                  \/ /\ opts[n].type = "hub_connection"
                     /\ opts[n].hub \in HubSet
                     /\ opts[n].route = << o, opts[n].hub, d >>
                     /\ opts[n].stops = 1
                     /\ opts[n].distance =
                            FirstEdge(flights, o, opts[n].hub).distance
                            + FirstEdge(flights, opts[n].hub, d).distance
            /\ \A m \in DOMAIN opts, n \in DOMAIN opts :
                  (m # n /\ opts[m].type = opts[n].type) =>
                      /\ opts[m].type = "hub_connection"
                      /\ opts[m].hub # opts[n].hub

\* C5 witness: a call that returned a direct option and a hub option.
C5_Witness ==
    /\ RouteCalled
    /\ \E m \in DOMAIN ret.options : ret.options[m].type = "direct"
    /\ \E n \in DOMAIN ret.options : ret.options[n].type = "hub_connection"

\* the place of an option in the order of discovery: the direct option
\* first, then the hubs in the order of MAJOR_HUBS
DiscoveryRank(option) ==
    IF option.type = "direct"
    THEN 0
    ELSE CHOOSE k \in DOMAIN MAJOR_HUBS : MAJOR_HUBS[k] = option.hub

\* C6: the returned options are in ascending order of total distance, and
\* options of equal distance are in their order of discovery.
C6_SortedStable ==
    RouteCalled =>
        \A m \in DOMAIN ret.options, n \in DOMAIN ret.options :
            m < n =>
                /\ ret.options[m].distance <= ret.options[n].distance
                /\ ret.options[m].distance = ret.options[n].distance =>
                       DiscoveryRank(ret.options[m]) < DiscoveryRank(ret.options[n])

\* C6 witness: a call that returned two options of equal distance.
C6_Witness ==
    /\ RouteCalled
    /\ \E m \in DOMAIN ret.options, n \in DOMAIN ret.options :
          m < n /\ ret.options[m].distance = ret.options[n].distance

\* C7: when there is neither a direct edge nor a hub with both legs for the
\* pair, the call returns the empty sequence.
C7_EmptyWhenNoOption ==
    ( /\ RouteCalled
      /\ DirectEdgesAt(flights, call.origin, call.destination) = {}
      /\ \A h \in HubSet : ~ HubConnects(flights, call.origin, h, call.destination) )
    => ret.options = << >>

\* C7 witness: routes asked from a code the catalog does not have, over a
\* non-empty edge sequence, and the empty sequence returned.
C7_Witness ==
    /\ RouteCalled
    /\ get_airport(call.origin) = None
    /\ flights # << >>
    /\ ret.options = << >>

(***************************************************************************)
(* Properties of the auditor (specification SpecAudit)                     *)
(***************************************************************************)
\* the positions of the edges of fl shorter than 150 miles
ShortAt(fl) == { k \in DOMAIN fl : fl[k].distance < 15000 }

\* the n-th of them
NthShort(fl, n) ==
    CHOOSE k \in ShortAt(fl) : Cardinality({ m \in ShortAt(fl) : m < k }) = n - 1

\* C8: the violations returned are one entry for each edge shorter than 150
\* miles, in the order of the edges, and valid is true exactly when there is
\* none.
C8_Violations ==
    call.op = "verify_network_constraints" =>
        LET valid == ret.result[1]
            violations == ret.result[2]
        IN  /\ Len(violations) = Cardinality(ShortAt(flights))
            /\ \A n \in DOMAIN violations :
                  LET f == flights[NthShort(flights, n)]
                  IN  violations[n] = << f.origin, f.destination, f.distance >>
            /\ valid <=> (violations = << >>)

\* C8 witness: an audit of three edges, the first and the last too short.
C8_Witness ==
    /\ call.op = "verify_network_constraints"
    /\ Len(flights) = 3
    /\ flights[1].distance < 15000
    /\ flights[2].distance >= 15000
    /\ flights[3].distance < 15000
    /\ Len(ret.result[2]) = 2
    /\ ret.result[1] = FALSE

\* the sum of the distances of fl
RECURSIVE TotalDistance(_)
TotalDistance(fl) ==
    IF fl = << >> THEN 0 ELSE Head(fl).distance + TotalDistance(Tail(fl))

\* the counts of the statistics, without the average
StatsCounts(stats, fl) ==
    /\ stats.total_flights = Len(fl)
    /\ stats.unique_routes =
           Cardinality({ k \in DOMAIN fl :
               \A m \in 1..(k - 1) :
                   { fl[m].origin, fl[m].destination }
                       # { fl[k].origin, fl[k].destination } })
    /\ stats.direct_flights = Cardinality({ k \in DOMAIN fl : fl[k].is_direct })
    /\ stats.hub_connections =
           Cardinality({ k \in DOMAIN fl : \/ fl[k].origin \in HubSet
                                           \/ fl[k].destination \in HubSet })

\* C9 as stated: the counts, and an average that is exactly the total
\* distance divided by the number of edges (0 for no edges).
C9_ExactAverage ==
    call.op = "analyze_network_statistics" =>
        /\ StatsCounts(ret.stats, flights)
        /\ IF flights = << >>
           THEN ret.stats.average_flight_distance = 0
           ELSE ret.stats.average_flight_distance * Len(flights)
                    = TotalDistance(flights)

\* C9 as amended: the counts, and an average that is the total distance
\* divided by the number of edges, rounded to the nearest hundredth of a mile
\* (0 for no edges).
C9_RoundedAverage ==
    call.op = "analyze_network_statistics" =>
        /\ StatsCounts(ret.stats, flights)
        /\ IF flights = << >>
           THEN ret.stats.average_flight_distance = 0
           ELSE LET err == ret.stats.average_flight_distance * Len(flights)
                               - TotalDistance(flights)
                IN  /\ 2 * err <= Len(flights)
                    /\ -2 * err <= Len(flights)

\* C9 witness: statistics of three edges, two of them the two directions of
\* one route, whose total is not a multiple of three.
C9_Witness ==
    /\ call.op = "analyze_network_statistics"
    /\ Len(flights) = 3
    /\ ret.stats.unique_routes = 2
    /\ flights[1].origin = flights[2].destination
    /\ flights[1].destination = flights[2].origin
    /\ TotalDistance(flights) % 3 # 0

(***************************************************************************)
(* Properties of should_create_direct_flight (specification SpecDirect)    *)
(***************************************************************************)
\* C10: for a direct distance of 1000 miles or more and no hub that yields a
\* hub path, the efficiency ratio is 1.0 and the answer is false.
C10_NoHubPathRejected ==
    ( /\ call.op = "should_create_direct_flight"
      /\ call.direct_distance >= 100000
      /\ ret.min_hub[1] = Inf )
    => /\ efficiency_ratio(call.direct_distance, ret.min_hub[1]) = << 1, 1 >>
       /\ ret.create = FALSE

(***************************************************************************)
(* The minimum distance in the generation passes (specification SpecPass)  *)
(***************************************************************************)
PassRan == call.op \in { "hub_hub", "spoke_hub", "direct" }

\* C11: a candidate pair at exactly 150.00 miles passes the distance test of
\* its pass and gets an edge, and should_create_direct_flight answers true
\* for it; a pair at 149.99 miles gets no edge in either direction.
C11_InclusiveThreshold ==
    PassRan =>
        /\ call.distance = 15000 =>
              /\ \E k \in DOMAIN ret.edges :
                    /\ ret.edges[k].origin = call.a
                    /\ ret.edges[k].destination = call.b
                    /\ ret.edges[k].distance = 15000
              /\ should_create_direct_flight(call.a, call.b, 15000, MAJOR_HUBS)
        /\ call.distance = 14999 =>
              /\ ret.edges = << >>
              /\ ~ should_create_direct_flight(call.a, call.b, 14999, MAJOR_HUBS)

\* C11 witness: the third pass ran on a pair at exactly 150.00 miles and
\* appended both directions.
C11_Witness ==
    /\ call.op = "direct"
    /\ call.distance = 15000
    /\ Len(ret.edges) = 2

(***************************************************************************)
(* Properties of get_distance (specification SpecDistance)                 *)
(***************************************************************************)
\* the catalog has the code, written in upper case
InCatalog(code) == \E k \in DOMAIN AirportCodes : AirportCodes[k] = Upper(code)

\* C12: get_distance returns None exactly when one of the two codes, in upper
\* case, is not in the catalog; otherwise it returns a number, the one it
\* returns for the codes written in upper case.
C12_NoneIffUnknown ==
    call.op = "get_distance" =>
        /\ ret.distance = None <=>
               (~ InCatalog(call.iata1) \/ ~ InCatalog(call.iata2))
        /\ ret.distance # None => ret.distance >= 0
        /\ ret.distance =
               get_distance_in(Upper(call.iata1), Upper(call.iata2), call.unit)

\* C12 witness: the distance from "atl" to "JFK", 759.27 miles.
C12_Witness ==
    /\ call.op = "get_distance"
    /\ call.iata1 = "atl"
    /\ call.iata2 = "JFK"
    /\ call.unit = "miles"
    /\ ret.distance = 75927

\* C13: for two codes of the catalog the distance is the same in both orders,
\* and it is 0 from a code to itself.
C13_Symmetric ==
    ( /\ call.op = "get_distance"
      /\ call.iata1 \in Range(AirportCodes)
      /\ call.iata2 \in Range(AirportCodes) )
    => /\ ret.distance # None
       /\ ret.distance = get_distance_in(call.iata2, call.iata1, call.unit)
       /\ call.iata1 = call.iata2 => ret.distance = 0

\* C13 witness: the distance from HNL to CDG, which is not 0.
C13_Witness ==
    /\ call.op = "get_distance"
    /\ call.iata1 = "HNL"
    /\ call.iata2 = "CDG"
    /\ ret.distance > 0

(***************************************************************************)
(* Further properties of generate_flight_network (specification Spec)      *)
(***************************************************************************)
\* the least element of a non-empty set of numbers
SetMin(S) == CHOOSE x \in S : \A y \in S : x <= y

\* the shortest way from origin to destination over one hub other than the two
MinHubDistance(origin, destination) ==
    SetMin({ get_distance(origin, h) + get_distance(h, destination) :
                 h \in HubSet \ { origin, destination } })

\* d >= 150 and (d < 1000 or d / minHubDistance <= 0.85), in hundredths
Qualifies(origin, destination) ==
    LET d == get_distance(origin, destination)
    IN  /\ d >= 15000
        /\ \/ d < 100000
           \/ 100 * d <= 85 * MinHubDistance(origin, destination)

IndexOf(list, code) == CHOOSE k \in DOMAIN list : list[k] = code

\* the pass an edge belongs to by its endpoints: 1 between two hubs, 2 between
\* a hub and a non-hub airport, 3 between two non-hub airports
EdgeClass(flight) ==
    IF flight.origin \in HubSet /\ flight.destination \in HubSet
    THEN 1
    ELSE IF flight.origin \in HubSet \/ flight.destination \in HubSet
         THEN 2
         ELSE 3

\* where the loops of its pass stand when an edge is appended: the positions
\* of the outer and the inner loop, then 0 for the first append and 1 for the
\* second
IterationKey(flight) ==
    LET o == flight.origin
        d == flight.destination
    IN  CASE EdgeClass(flight) = 1 ->
                 << IndexOf(MAJOR_HUBS, o), IndexOf(MAJOR_HUBS, d), 0 >>
          [] EdgeClass(flight) = 2 ->
                 IF d \in HubSet
                 THEN << IndexOf(US_AIRPORTS, o), IndexOf(MAJOR_HUBS, d), 0 >>
                 ELSE << IndexOf(US_AIRPORTS, d), IndexOf(MAJOR_HUBS, o), 1 >>
          [] OTHER ->
                 IF IndexOf(US_AIRPORTS, o) < IndexOf(US_AIRPORTS, d)
                 THEN << IndexOf(US_AIRPORTS, o), IndexOf(US_AIRPORTS, d), 0 >>
                 ELSE << IndexOf(US_AIRPORTS, d), IndexOf(US_AIRPORTS, o), 1 >>

KeyBefore(x, y) ==
    \/ x[1] < y[1]
    \/ x[1] = y[1] /\ x[2] < y[2]
    \/ x[1] = y[1] /\ x[2] = y[2] /\ x[3] < y[3]

\* neighbours in flights are in pass order and, within a pass, in iteration order
InGenerationOrder(fl) ==
    \A k \in 1..(Len(fl) - 1) :
        \/ EdgeClass(fl[k]) < EdgeClass(fl[k + 1])
        \/ /\ EdgeClass(fl[k]) = EdgeClass(fl[k + 1])
           /\ KeyBefore(IterationKey(fl[k]), IterationKey(fl[k + 1]))

\* a step of the third pass appends only edges between two non-hub airports
DirectPassAddsNoHubEdge ==
    pc = "direct" =>
        /\ Len(flights') >= Len(flights)
        /\ \A k \in (Len(flights) + 1)..Len(flights') :
              /\ flights'[k].origin \notin HubSet
              /\ flights'[k].destination \notin HubSet

\* C16: at every point of generation the hub-to-hub edges come first, then the
\* spoke-hub edges, then the edges between two non-hub airports, each group in
\* the iteration order of the hub list and the airport list; and no step of
\* the third pass appends an edge that touches a hub.
C16_GenerationOrder ==
    /\ [](InGenerationOrder(flights))
    /\ [][DirectPassAddsNoHubEdge]_vars

\* C16 witness: a finished network with edges of all three groups.
C16_Witness ==
    /\ pc = "done"
    /\ \E k \in DOMAIN flights : EdgeClass(flights[k]) = 1
    /\ \E k \in DOMAIN flights : EdgeClass(flights[k]) = 2
    /\ \E k \in DOMAIN flights : EdgeClass(flights[k]) = 3

\* the pairs of distinct non-hub airports, which are the pairs the third pass
\* examines
NonHubPairs ==
    { p \in NonHubAirports \X NonHubAirports : p[1] # p[2] }

\* C17 as stated: once generation has finished, processed_pairs holds every
\* pair of distinct non-hub airports, in both orders, with or without an edge.
C17_EveryExaminedPairMarked ==
    pc = "done" => \A p \in NonHubPairs : p \in processed_pairs

\* C17 as amended: at every point of generation a pair of non-hub airports is
\* in processed_pairs, in both orders, exactly when it has its direct edge; a
\* pair that was skipped or rejected is not in it.
C17_MarkedIffEdge ==
    \A p \in NonHubPairs :
        /\ p \in processed_pairs <=> HasEdge(flights, p[1], p[2])
        /\ p \in processed_pairs <=> << p[2], p[1] >> \in processed_pairs

\* C17 witness: a finished network where LAX - LAS got its edge and is marked,
\* and JFK - LGA (under 150 miles) and a pair the efficiency test rejected are
\* not marked.
C17_Witness ==
    /\ pc = "done"
    /\ << "LAX", "LAS" >> \in processed_pairs
    /\ << "JFK", "LGA" >> \notin processed_pairs
    /\ \E p \in NonHubPairs :
          /\ get_distance(p[1], p[2]) >= 100000
          /\ ~ Qualifies(p[1], p[2])
          /\ p \notin processed_pairs

\* C18: at every point of generation no ordered (origin, destination) pair
\* occurs in more than one edge, and every edge has two different endpoints
\* that are both in the catalog, is_direct true and no via_hub.
C18_EdgesWellFormed ==
    /\ Cardinality({ << flights[k].origin, flights[k].destination >> :
                         k \in DOMAIN flights }) = Len(flights)
    /\ \A k \in DOMAIN flights :
          /\ flights[k].origin # flights[k].destination
          /\ flights[k].origin \in DOMAIN AIRPORTS
          /\ flights[k].destination \in DOMAIN AIRPORTS
          /\ flights[k].is_direct = TRUE
          /\ flights[k].via_hub = NoCode

\* C18 witness: the finished network of 482 edges.
C18_Witness ==
    /\ pc = "done"
    /\ Len(flights) = 482

\* C19: once generation has finished, get_route_options over the generated
\* network returns at least one option for every ordered pair of distinct
\* airports of US_AIRPORTS.
C19_EveryPairQueryable ==
    pc = "done" =>
        \A a \in Range(US_AIRPORTS), b \in Range(US_AIRPORTS) :
            a # b => get_route_options(a, b, flights) # << >>

(***************************************************************************)
(* What the operations leave unchanged (specification SpecFrame)           *)
(***************************************************************************)
\* the module's dict has the entries of the AIRPORTS literal, a lookup returns
\* what the literal has under the code in upper case, and the list of the
\* running or last call is another object than the list the caller kept
CatalogAndListsIntact ==
    /\ dicts["AIRPORTS"] = AIRPORTS
    /\ call.op = "get_airport" =>
           ret.airport = IF Upper(call.iata) \in DOMAIN AIRPORTS
                         THEN AIRPORTS[Upper(call.iata)]
                         ELSE None
    /\ prev_ref # NoList => flights_ref # prev_ref

\* a step that makes a call of get_airport, get_route_options,
\* verify_network_constraints or analyze_network_statistics leaves both edge
\* sequences as they are; a step of a generation pass leaves the sequence of
\* the call before as it is, and a new call keeps the sequence just returned
EdgeSequencesKept ==
    /\ call' # call => flights' = flights /\ prev_flights' = prev_flights
    /\ dicts' # dicts => flights' = flights /\ prev_flights' = prev_flights
    /\ pc \in { "hub_hub", "spoke_hub", "direct" } => prev_flights' = prev_flights
    /\ (pc = "done" /\ pc' = "hub_hub") => prev_flights' = flights

\* C14: the catalog keeps its entries whatever is done to the dict that
\* list_all_airports returned, so get_airport answers as before; generation
\* and the queries leave the catalog and the edge sequences they are given
\* unchanged; and a call of generate_flight_network builds its edges in a list
\* of its own, leaving the sequence the call before returned as it was.
C14_Frame ==
    /\ [](CatalogAndListsIntact)
    /\ [][EdgeSequencesKept]_vars

\* C14 witness: the caller deleted ATL from the listing and stored XXX in it,
\* then get_airport('ATL') returned the ATL record, and two calls of
\* generate_flight_network have returned.
C14_Witness ==
    /\ listing # NoDict
    /\ "ATL" \notin DOMAIN dicts[listing]
    /\ "XXX" \in DOMAIN dicts[listing]
    /\ call.op = "get_airport"
    /\ call.iata = "ATL"
    /\ ret.airport = AIRPORTS["ATL"]
    /\ pc = "done"
    /\ runs >= 2
    /\ Len(prev_flights) = 482
    /\ Len(flights) = 482

====
